---- MODULE Spec2Model ----
(***************************************************************************)
(* A model of the TopHat filing monitor (tophat_api_monitor.py) and of its *)
(* retention companion (cleanup_files.py).                                  *)
(*                                                                         *)
(* Python values are modelled as follows.                                   *)
(*   - a string is a sequence of one-character strings, so that str(),     *)
(*     truthiness and the lexicographic order are computed, not assumed;    *)
(*   - the value found under a dict key is a record [t, n, s]: t is the     *)
(*     Python type ("int", "str", "none") or "missing" when the key is      *)
(*     absent, n the integer and s the string carried;                      *)
(*   - a filing record (a dict) is [Id, tag]: Id is the value under 'Id'    *)
(*     and tag stands for all its other fields (DocId, Employer, ...).      *)
(***************************************************************************)
EXTENDS Integers, Sequences, FiniteSets, TLC

VARIABLES
    \* identify_new_records call
    id_pc, current_records, baseline_ids, new_records,
    \* fetch_all_records call: position, caller, argument and locals
    f_pc, caller, full_scan, all_records, offset, total_records, seen_ids,
    \* what the call did so far: page requests and delays in order, and the
    \* rows of every page the server returned
    f_log, served,
    \* the baseline CSV file
    baseline_file,
    \* a direct call of save_baseline or load_baseline: the call, its argument,
    \* the file before it, whether its file I/O succeeded, and what
    \* load_baseline returned
    b_op, b_arg, b_before, b_io_ok, b_loaded, b_prev_op, b_prev_ok,
    \* the files of the output directory
    out_dir,
    \* a FileCleanup object and its last cleanup_old_files call: keep_count,
    \* the arguments, the directory before the call, the pair returned, the
    \* files a warning was logged for and the files unlink was called on;
    \* c_prev is the call before the last one on the same object, if any
    keep_count, c_pc, c_pattern, c_dry_run, c_before, c_result, c_warned,
    c_unlinked, c_prev,
    \* the comparison of the two retention passes: the monitor's output
    \* directory and its cleanup_old_files call (idle or returned), the number
    \* of patterns FileCleanup.cleanup_all has gone through on out_dir, the
    \* order in which the directory yields its entries and the files on which
    \* unlink raises
    mon_dir, m_pc, a_pc, fs_order, fs_locked,
    \* the monitor object: email_config (none, incomplete or complete) and
    \* keep_files
    email_config, keep_files,
    \* the state JSON file
    state_file,
    \* one run(send_email_notification): position, argument, start_time and
    \* the locals baseline_ids, all_records (sorted) and new_records
    r_pc, send_email_notification, start_time, r_baseline_ids, r_all_records,
    r_new_records,
    \* the outcome of the file I/O of the run's load_baseline call
    r_load,
    \* what the run did so far: the baseline file, state file and directory
    \* it started from, its side effects in order, and the exit code of main
    r_before, r_effects, exit_code,
    \* the I/O failures injected so far
    faults,
    \* the runs of the monitor completed before the current one: for each, the
    \* string Ids of the records its fetch returned
    earlier_runs

vars_identify == <<id_pc, current_records, baseline_ids, new_records>>
vars_fetch == <<f_pc, caller, full_scan, all_records, offset, total_records,
                seen_ids, f_log, served>>

vars_store == <<b_op, b_arg, b_before, b_io_ok, b_loaded, b_prev_op, b_prev_ok>>

vars_cleanup == <<keep_count, c_pc, c_pattern, c_dry_run, c_before, c_result,
                  c_warned, c_unlinked, c_prev, mon_dir, m_pc, a_pc, fs_order,
                  fs_locked>>

vars_monitor == <<email_config, keep_files>>
vars_run == <<r_pc, send_email_notification, start_time, r_baseline_ids, r_load,
              r_all_records, r_new_records, r_before, r_effects, exit_code,
              faults>>

vars == <<vars_identify, vars_fetch, baseline_file, vars_store, out_dir,
          vars_cleanup, vars_monitor, earlier_runs, state_file, vars_run>>

-----------------------------------------------------------------------------
(* Bounds of the model *)

\* longest record list handed to identify_new_records
MaxLen == 3
\* longest record list handed to save_baseline in a direct call
MaxSaved == 2
\* most rows in a page of the small-page server
MaxRows == 2
\* most files in the output directory before a FileCleanup call
MaxFiles == 4
\* largest keep_count of a FileCleanup object
MaxKeep == 2
\* most I/O failures (file writes, reads, unlinks, the SMTP session) in a run
MaxFaults == 1
\* most runs of the monitor one after the other
MaxRuns == 3

-----------------------------------------------------------------------------
(* Python values *)

PyInt(k) == [t |-> "int", n |-> k, s |-> <<>>]
PyStr(str) == [t |-> "str", n |-> 0, s |-> str]
PyNone == [t |-> "none", n |-> 0, s |-> <<>>]
Missing == [t |-> "missing", n |-> 0, s |-> <<>>]

Digit(d) ==
    CASE d = 0 -> "0" [] d = 1 -> "1" [] d = 2 -> "2" [] d = 3 -> "3"
      [] d = 4 -> "4" [] d = 5 -> "5" [] d = 6 -> "6" [] d = 7 -> "7"
      [] d = 8 -> "8" [] d = 9 -> "9"

\* str(k) of a non-negative int: its decimal digits
RECURSIVE IntToStr(_)
IntToStr(k) == IF k < 10 THEN <<Digit(k)>>
               ELSE IntToStr(k \div 10) \o <<Digit(k % 10)>>

\* str(v) of a value
PyStrOf(v) ==
    CASE v.t = "int" -> IntToStr(v.n)
      [] v.t = "str" -> v.s
      [] v.t = "none" -> <<"N", "o", "n", "e">>

\* dict.get(key, default): the value under the key, the default when absent
DictGet(v, default) == IF v.t = "missing" THEN default ELSE v

\* truthiness of a value: None, 0 and '' are falsy
Truthy(v) ==
    CASE v.t = "int" -> v.n # 0
      [] v.t = "str" -> v.s # <<>>
      [] v.t = "none" -> FALSE
      [] v.t = "missing" -> FALSE

\* a filing record: the value under 'Id' and a tag for the other fields
Rec(id, tag) == [Id |-> id, tag |-> tag]

\* sequences over S of length at most k
SeqsUpTo(S, k) == UNION {[1..m -> S] : m \in 0..k}

-----------------------------------------------------------------------------
(* TopHatAPIMonitor.identify_new_records *)

\* the loop of identify_new_records over current_records[i..], appending to acc
RECURSIVE IdentifyLoop(_, _, _, _)
IdentifyLoop(records, ids, i, acc) ==
    IF i > Len(records) THEN acc
    ELSE LET record_id == PyStrOf(DictGet(records[i].Id, PyStr(<<>>)))
         IN IF record_id # <<>> /\ record_id \notin ids
            THEN IdentifyLoop(records, ids, i + 1, Append(acc, records[i]))
            ELSE IdentifyLoop(records, ids, i + 1, acc)

\* identify_new_records testing the raw Id for truth instead of its string
identify_new_records_raw_truth(records, ids) ==
    SelectSeq(records, LAMBDA r : /\ Truthy(r.Id)
                                  /\ PyStrOf(r.Id) \notin ids)

identify_new_records(records, ids) == IdentifyLoop(records, ids, 1, <<>>)

\* no identify_new_records call
IdentifyIdle ==
    /\ id_pc = "idle"
    /\ current_records = <<>>
    /\ baseline_ids = {}
    /\ new_records = <<>>

-----------------------------------------------------------------------------
(* Ordering and sorting *)

\* ord(c) of the characters the model's strings are made of
Code(c) ==
    CASE c = "0" -> 48 [] c = "1" -> 49 [] c = "2" -> 50 [] c = "3" -> 51
      [] c = "4" -> 52 [] c = "5" -> 53 [] c = "6" -> 54 [] c = "7" -> 55
      [] c = "8" -> 56 [] c = "9" -> 57 [] c = "N" -> 78 [] c = "e" -> 101
      [] c = "n" -> 110 [] c = "o" -> 111

\* a < b for two strings: the lexicographic order on code points
RECURSIVE StrLess(_, _)
StrLess(a, b) ==
    IF b = <<>> THEN FALSE
    ELSE IF a = <<>> THEN TRUE
    ELSE IF Code(Head(a)) # Code(Head(b)) THEN Code(Head(a)) < Code(Head(b))
    ELSE StrLess(Tail(a), Tail(b))

\* a datetime as a sort key: its date YYYYMMDD and its time HHMMSS
PyDatetime(date, time) == [t |-> "datetime", n |-> 0, s |-> <<date, time>>]

\* a < b for two sort keys of one type: ints by value, strings as above,
\* datetimes by date and then time
KeyLess(a, b) ==
    CASE a.t = "int" -> a.n < b.n
      [] a.t = "str" -> StrLess(a.s, b.s)
      [] a.t = "datetime" ->
             \/ a.s[1] < b.s[1]
             \/ a.s[1] = b.s[1] /\ a.s[2] < b.s[2]

\* the keyed item x inserted into the sorted list after every item that does
\* not come after it (before the first item it must precede)
RECURSIVE InsertSorted(_, _, _)
InsertSorted(sorted, x, reverse) ==
    IF sorted = <<>> THEN <<x>>
    ELSE IF (IF reverse THEN KeyLess(Head(sorted).key, x.key)
                        ELSE KeyLess(x.key, Head(sorted).key))
         THEN <<x>> \o sorted
         ELSE <<Head(sorted)>> \o InsertSorted(Tail(sorted), x, reverse)

RECURSIVE SortFrom(_, _, _, _)
SortFrom(keyed, i, acc, reverse) ==
    IF i > Len(keyed) THEN acc
    ELSE SortFrom(keyed, i + 1, InsertSorted(acc, keyed[i], reverse), reverse)

\* sorted(items, key = ..., reverse = ...) given each item's key: stable, as
\* list.sort and sorted are, also under reverse
Sorted(items, keys, reverse) ==
    LET keyed == [i \in 1..Len(items) |-> [key |-> keys[i], item |-> items[i]]]
        out == SortFrom(keyed, 1, <<>>, reverse)
    IN [i \in 1..Len(out) |-> out[i].item]

-----------------------------------------------------------------------------
(* The baseline file: TopHatAPIMonitor.load_baseline and save_baseline *)

\* a file that does not exist, and a CSV file of the given rows under the
\* header Id,DocId,Employer,Ein,PlanName,DateReceived,Efile
NoFile == [exists |-> FALSE, rows |-> <<>>]
CsvFile(rows) == [exists |-> TRUE, rows |-> rows]

\* the text csv.DictWriter writes for a value: '' for None and for a key the
\* record lacks, str(v) otherwise
CsvField(v) == IF v.t \in {"none", "missing"} THEN <<>> ELSE PyStrOf(v)

\* the row DictWriter writes for a record, as DictReader reads it back
CsvRow(r) == [Id |-> CsvField(r.Id), tag |-> r.tag]

\* the key of save_baseline's sort: str(x.get('Id', ''))
BaselineKey(r) == PyStrOf(DictGet(r.Id, PyStr(<<>>)))

\* load_baseline adding the Id of every row, empty or not
load_baseline_every_row(file, upto) ==
    IF ~file.exists THEN {}
    ELSE { file.rows[i].Id : i \in 1..upto }

\* load_baseline when reading raises after `upto` rows were read (never,
\* when upto is the number of rows): the Ids collected until then
load_baseline(file, upto) ==
    IF ~file.exists THEN {}
    ELSE { file.rows[i].Id : i \in { k \in 1..upto : file.rows[k].Id # <<>> } }

\* the outcomes of the file I/O of one save_baseline or load_baseline call:
\* success, open() raising, or a read or write raising after some rows
IoOk == [kind |-> "ok", upto |-> 0]
IoOpenFails == [kind |-> "open_fails", upto |-> 0]
IoFailsAfter(k) == [kind |-> "fails_after", upto |-> k]
IoOutcomes(n) == {IoOk, IoOpenFails} \cup {IoFailsAfter(k) : k \in 0..(n - 1)}

\* the rows load_baseline gets to read under an outcome
RowsRead(file, io) ==
    CASE io.kind = "ok" -> Len(file.rows)
      [] io.kind = "open_fails" -> 0
      [] io.kind = "fails_after" -> io.upto

\* the file written from the records in the order given
WriteBaseline(file, records, io) ==
    LET rows == [i \in 1..Len(records) |-> CsvRow(records[i])]
    IN CASE io.kind = "ok" -> CsvFile(rows)
         [] io.kind = "open_fails" -> file
         [] io.kind = "fails_after" -> CsvFile(SubSeq(rows, 1, io.upto))

\* save_baseline without its guard on empty input
save_baseline_no_guard(file, records, io) == WriteBaseline(file, records, io)

\* save_baseline appending to the rows of the existing file
save_baseline_append(file, records, io) ==
    IF records = <<>> THEN file
    ELSE CsvFile(file.rows \o [i \in 1..Len(records) |-> CsvRow(records[i])])

\* the baseline file after save_baseline(records) under an outcome
save_baseline(file, records, io) ==
    IF records = <<>> THEN file
    ELSE LET sorted_records ==
                 Sorted(records,
                        [i \in 1..Len(records) |-> PyStr(BaselineKey(records[i]))],
                        FALSE)
         IN WriteBaseline(file, sorted_records, io)

\* no direct call of the baseline store was made
StoreIdle ==
    /\ b_op = "none"
    /\ b_arg = <<>>
    /\ b_before = NoFile
    /\ b_io_ok = TRUE
    /\ b_loaded = {}
    /\ b_prev_op = "none"
    /\ b_prev_ok = TRUE

\* a direct call save_baseline(records), as the first call
SaveBaselineCall(records) ==
    \E io \in IoOutcomes(Len(records)) :
        /\ b_op = "none"
        /\ baseline_file' = save_baseline(baseline_file, records, io)
        /\ b_op' = "save"
        /\ b_arg' = records
        /\ b_before' = baseline_file
        /\ b_io_ok' = (io = IoOk)
        /\ b_prev_op' = b_op
        /\ b_prev_ok' = b_io_ok
        /\ UNCHANGED b_loaded
        /\ UNCHANGED <<vars_identify, vars_fetch, out_dir, vars_cleanup,
                       vars_monitor, earlier_runs, state_file, vars_run>>

\* a direct call load_baseline(), as the first call or after save_baseline
LoadBaselineCall ==
    \E io \in IoOutcomes(Len(baseline_file.rows)) :
        /\ b_op \in {"none", "save"}
        /\ b_loaded' = load_baseline(baseline_file, RowsRead(baseline_file, io))
        /\ b_op' = "load"
        /\ b_before' = baseline_file
        /\ b_io_ok' = (io = IoOk \/ ~baseline_file.exists)
        /\ b_prev_op' = b_op
        /\ b_prev_ok' = b_io_ok
        /\ UNCHANGED <<baseline_file, b_arg>>
        /\ UNCHANGED <<vars_identify, vars_fetch, out_dir, vars_cleanup,
                       vars_monitor, earlier_runs, state_file, vars_run>>

-----------------------------------------------------------------------------
(* Timestamped files and FileCleanup (cleanup_files.py) *)

\* a file of the output directory: the segments its stem splits into at '_'
\* (filepath.stem.split('_')) and its extension
File(stem, ext) == [stem |-> stem, ext |-> ext]

\* a glob pattern <prefix>_*.<ext>, the prefix given by its segments, and
\* *.<ext> when the prefix is empty
Pattern(prefix, ext) == [prefix |-> prefix, ext |-> ext]

\* whether output_dir.glob(pattern) yields the file
GlobMatch(pattern, f) ==
    /\ f.ext = pattern.ext
    /\ Len(f.stem) > Len(pattern.prefix)
    /\ SubSeq(f.stem, 1, Len(pattern.prefix)) = pattern.prefix

\* %Y%m%d of strptime on a segment: the date as a number, -1 where strptime
\* raises ValueError
ParseDate(seg) ==
    CASE seg = "20240101" -> 20240101
      [] seg = "20240102" -> 20240102
      [] OTHER -> -1

\* %H%M%S of strptime on a segment: the time as a number, -1 where strptime
\* raises ValueError
ParseTime(seg) ==
    CASE seg = "000000" -> 0
      [] seg = "000001" -> 1
      [] seg = "235958" -> 235958
      [] seg = "235959" -> 235959
      [] OTHER -> -1

\* the try block on one file: "ok" with the timestamp parsed from the last
\* two segments, "skip" when the stem has fewer than 3 segments, "error"
\* when strptime raises
ParseFile(f) ==
    LET parts == f.stem
    IN IF Len(parts) >= 3
       THEN LET date == ParseDate(parts[Len(parts) - 1])
                time == ParseTime(parts[Len(parts)])
            IN IF date < 0 \/ time < 0
               THEN [kind |-> "error", ts |-> PyDatetime(0, 0)]
               ELSE [kind |-> "ok", ts |-> PyDatetime(date, time)]
       ELSE [kind |-> "skip", ts |-> PyDatetime(0, 0)]

\* the orders in which glob may yield a set of files
Orders(files) ==
    { o \in [1..Cardinality(files) -> files] :
        \A i, j \in 1..Cardinality(files) : i # j => o[i] # o[j] }

\* get_timestamped_files taking every file the glob yields
get_timestamped_files_unfiltered(listing) ==
    Sorted(listing, [i \in 1..Len(listing) |-> ParseFile(listing[i]).ts], TRUE)

\* get_timestamped_files sorting oldest first
get_timestamped_files_oldest_first(listing) ==
    LET parsed == SelectSeq(listing, LAMBDA f : ParseFile(f).kind = "ok")
    IN Sorted(parsed, [i \in 1..Len(parsed) |-> ParseFile(parsed[i]).ts], FALSE)

\* FileCleanup.get_timestamped_files(pattern) when glob yields the matching
\* files in the order `listing`: the parsed files newest first
get_timestamped_files(listing) ==
    LET parsed == SelectSeq(listing, LAMBDA f : ParseFile(f).kind = "ok")
    IN Sorted(parsed, [i \in 1..Len(parsed) |-> ParseFile(parsed[i]).ts], TRUE)

\* the files get_timestamped_files logs a warning for
WarnedFiles(listing) ==
    { listing[i] : i \in { k \in 1..Len(listing) : ParseFile(listing[k]).kind = "error" } }

\* files_with_timestamps[:keep] and files_with_timestamps[keep:], keep >= 0
KeepPrefix(files, keep) == SubSeq(files, 1, IF keep < Len(files) THEN keep ELSE Len(files))
DeleteSuffix(files, keep) == SubSeq(files, keep + 1, Len(files))

\* the elements of a sequence
Range(seq) == { seq[i] : i \in 1..Len(seq) }

\* no FileCleanup.cleanup_old_files call was made
CleanupIdle ==
    /\ keep_count = 0
    /\ c_pc = "idle"
    /\ c_pattern = Pattern(<<>>, "")
    /\ c_dry_run = FALSE
    /\ c_before = {}
    /\ c_result = <<0, 0>>
    /\ c_warned = {}
    /\ c_unlinked = <<>>
    /\ c_prev = <<>>
    /\ mon_dir = {}
    /\ m_pc = "idle"
    /\ a_pc = 0
    /\ fs_order = <<>>
    /\ fs_locked = {}

\* cleanup_old_files returning the count of files removed in a dry run too
CleanupOldFilesDryCountsRemoved(pattern, dry_run, listing, locked) ==
    LET files_with_timestamps == get_timestamped_files(listing)
        files_to_keep == KeepPrefix(files_with_timestamps, keep_count)
        files_to_delete == DeleteSuffix(files_with_timestamps, keep_count)
        deleted == Range(files_to_delete) \ locked
    IN /\ c_pattern' = pattern
       /\ c_dry_run' = dry_run
       /\ c_before' = out_dir
       /\ c_warned' = WarnedFiles(listing)
       /\ IF files_with_timestamps = <<>>
          THEN /\ c_result' = <<0, 0>>
               /\ c_unlinked' = <<>>
               /\ UNCHANGED out_dir
          ELSE IF dry_run
          THEN /\ c_result' = <<Len(files_to_keep), 0>>
               /\ c_unlinked' = <<>>
               /\ UNCHANGED out_dir
          ELSE /\ c_result' = <<Len(files_to_keep), Cardinality(deleted)>>
               /\ c_unlinked' = files_to_delete
               /\ out_dir' = out_dir \ deleted

\* the files unlink is called on when the first error ends the loop
UntilFirstLocked(files, locked) ==
    LET bad == {i \in 1..Len(files) : files[i] \in locked}
    IN IF bad = {} THEN files
       ELSE SubSeq(files, 1, CHOOSE i \in bad : \A j \in bad : i <= j)

\* cleanup_old_files whose delete loop stops at the first unlink that raises
CleanupOldFilesAbortOnError(pattern, dry_run, listing, locked) ==
    LET files_with_timestamps == get_timestamped_files(listing)
        files_to_keep == KeepPrefix(files_with_timestamps, keep_count)
        files_to_delete == DeleteSuffix(files_with_timestamps, keep_count)
        tried == UntilFirstLocked(files_to_delete, locked)
        deleted == Range(tried) \ locked
    IN /\ c_pattern' = pattern
       /\ c_dry_run' = dry_run
       /\ c_before' = out_dir
       /\ c_warned' = WarnedFiles(listing)
       /\ IF files_with_timestamps = <<>>
          THEN /\ c_result' = <<0, 0>>
               /\ c_unlinked' = <<>>
               /\ UNCHANGED out_dir
          ELSE IF dry_run
          THEN /\ c_result' = <<Len(files_to_keep), Len(files_to_delete)>>
               /\ c_unlinked' = <<>>
               /\ UNCHANGED out_dir
          ELSE /\ c_result' = <<Len(files_to_keep), Cardinality(deleted)>>
               /\ c_unlinked' = tried
               /\ out_dir' = out_dir \ deleted

\* FileCleanup.cleanup_old_files(pattern, dry_run): glob yields the matches in
\* the order `listing`, and unlink raises on the files of `locked`
CleanupOldFiles(pattern, dry_run, listing, locked) ==
    LET files_with_timestamps == get_timestamped_files(listing)
        files_to_keep == KeepPrefix(files_with_timestamps, keep_count)
        files_to_delete == DeleteSuffix(files_with_timestamps, keep_count)
        deleted == Range(files_to_delete) \ locked
    IN /\ c_pattern' = pattern
       /\ c_dry_run' = dry_run
       /\ c_before' = out_dir
       /\ c_warned' = WarnedFiles(listing)
       /\ IF files_with_timestamps = <<>>
          THEN /\ c_result' = <<0, 0>>
               /\ c_unlinked' = <<>>
               /\ UNCHANGED out_dir
          ELSE IF dry_run
          THEN /\ c_result' = <<Len(files_to_keep), Len(files_to_delete)>>
               /\ c_unlinked' = <<>>
               /\ UNCHANGED out_dir
          ELSE /\ c_result' = <<Len(files_to_keep), Cardinality(deleted)>>
               /\ c_unlinked' = files_to_delete
               /\ out_dir' = out_dir \ deleted

\* a call cleanup_old_files(pattern, dry_run) on a FileCleanup object
CleanupOldFilesCall(pattern, dry_run) ==
    /\ c_pc = "idle"
    /\ c_pc' = "done"
    /\ \E listing \in Orders({f \in out_dir : GlobMatch(pattern, f)}) :
          \E locked \in SUBSET Range(DeleteSuffix(get_timestamped_files(listing), keep_count)) :
              CleanupOldFiles(pattern, dry_run, listing, locked)
    /\ UNCHANGED <<keep_count, c_prev, mon_dir, m_pc, a_pc, fs_order, fs_locked>>
    /\ UNCHANGED <<vars_identify, vars_fetch, baseline_file, vars_store,
                   vars_monitor, earlier_runs, state_file, vars_run>>

\* a cleanup_old_files call as c_prev records it
CallRecord(pattern, dry_run, before, result) ==
    [pattern |-> pattern, dry_run |-> dry_run, before |-> before, result |-> result]

\* a second call cleanup_old_files(pattern, dry_run) on the same object
CleanupOldFilesAgain(pattern, dry_run) ==
    /\ c_pc = "done"
    /\ c_pc' = "again"
    /\ c_prev' = <<CallRecord(c_pattern, c_dry_run, c_before, c_result)>>
    /\ \E listing \in Orders({f \in out_dir : GlobMatch(pattern, f)}) :
          \E locked \in SUBSET Range(DeleteSuffix(get_timestamped_files(listing), keep_count)) :
              CleanupOldFiles(pattern, dry_run, listing, locked)
    /\ UNCHANGED <<keep_count, mon_dir, m_pc, a_pc, fs_order, fs_locked>>
    /\ UNCHANGED <<vars_identify, vars_fetch, baseline_file, vars_store,
                   vars_monitor, earlier_runs, state_file, vars_run>>

-----------------------------------------------------------------------------
(* TopHatAPIMonitor.fetch_all_records and fetch_page *)

RECORDS_PER_PAGE == 100
FETCH_LIMIT == 1000

\* the budget applied in both modes
max_records_always(fs) == PyInt(FETCH_LIMIT)

\* max_records_to_fetch = None if full_scan else 1000
max_records_to_fetch(fs) == IF fs THEN PyNone ELSE PyInt(FETCH_LIMIT)

\* the loop body keeping the last record seen under an Id, not the first
RowStepLastWins(row, st) ==
    LET record_id == DictGet(row.Id, PyNone)
    IN IF record_id = PyNone THEN st
       ELSE [seen |-> st.seen \cup {record_id},
             all |-> Append(SelectSeq(st.all, LAMBDA r : r.Id # record_id), row)]

\* the body of the for loop over the rows of a page, on the pair st of
\* seen_ids and all_records
RowStep(row, st) ==
    LET record_id == DictGet(row.Id, PyNone)
    IN IF record_id = PyNone THEN st
       ELSE IF record_id \in st.seen THEN st
       ELSE [seen |-> st.seen \cup {record_id}, all |-> Append(st.all, row)]

\* the for loop over rows[lo..hi] in order: rows[lo..mid] first, then the rest
\* from the state they leave (halving keeps the evaluation depth logarithmic
\* in the page length)
RECURSIVE RowLoop(_, _, _, _)
RowLoop(rows, lo, hi, st) ==
    IF lo > hi THEN st
    ELSE IF lo = hi THEN RowStep(rows[lo], st)
    ELSE LET mid == (lo + hi) \div 2
             left == RowLoop(rows, lo, mid, st)
         IN IF left = st THEN RowLoop(rows, mid + 1, hi, st)
                         ELSE RowLoop(rows, mid + 1, hi, left)

\* no fetch_all_records call in progress
FetchIdle ==
    /\ f_pc = "idle"
    /\ caller = "none"
    /\ full_scan = FALSE
    /\ all_records = <<>>
    /\ offset = 0
    /\ total_records = PyNone
    /\ seen_ids = {}
    /\ f_log = <<>>
    /\ served = <<>>

\* entry of fetch_all_records(full_scan = fs): the locals before the loop
FetchEntry(fs, who) ==
    /\ f_pc' = "request"
    /\ caller' = who
    /\ full_scan' = fs
    /\ all_records' = <<>>
    /\ offset' = 0
    /\ total_records' = PyNone
    /\ seen_ids' = {}
    /\ f_log' = <<>>
    /\ served' = <<>>

\* a direct call fetch_all_records(full_scan): the default is False
DirectFetchCall ==
    /\ f_pc = "idle"
    /\ \E fs \in BOOLEAN : FetchEntry(fs, "direct")
    /\ UNCHANGED <<vars_identify, baseline_file, vars_store, out_dir, vars_cleanup,
                   vars_monitor, earlier_runs, state_file, vars_run>>

\* the entries of f_log: a page request at an offset with whether fetch_page
\* returned a body, and a delay
Request(o, ok) == [e |-> "request", offset |-> o, ok |-> ok]
Delay == [e |-> "sleep", offset |-> 0, ok |-> TRUE]

\* the value under 'rows' in a body: a list of rows, or no such key
Rows(rows) == [t |-> "list", rows |-> rows]
NoRows == [t |-> "missing", rows |-> <<>>]

\* the budget test with > in place of >=
BudgetReachedStrict(limit, count) == Truthy(limit) /\ count > limit.n

\* max_records_to_fetch and len(all_records) >= max_records_to_fetch
BudgetReached(limit, count) == Truthy(limit) /\ count >= limit.n

\* the end-of-data test with > in place of >=
EndOfDataStrict(next_offset, total) == next_offset > total.n

\* offset >= total_records
EndOfData(next_offset, total) == next_offset >= total.n

\* a failed page request that is retried: the loop goes on at the same offset
PageFailsRetry ==
    /\ f_pc = "request"
    /\ f_log' = Append(f_log, Request(offset, FALSE))
    /\ UNCHANGED <<f_pc, caller, full_scan, all_records, offset, total_records,
                   seen_ids, served>>
    /\ UNCHANGED <<vars_identify, baseline_file, vars_store, out_dir, vars_cleanup,
                   vars_monitor, earlier_runs, state_file, vars_run>>

\* one iteration whose fetch_page(offset) returns None: the request raised
\* (network error, non-2xx status) or its body did not decode
PageFails ==
    /\ f_pc = "request"
    /\ f_log' = Append(f_log, Request(offset, FALSE))
    /\ f_pc' = "returned"
    /\ UNCHANGED <<caller, full_scan, all_records, offset, total_records,
                   seen_ids, served>>
    /\ UNCHANGED <<vars_identify, baseline_file, vars_store, out_dir, vars_cleanup,
                   vars_monitor, earlier_runs, state_file, vars_run>>

\* the iteration with the delay placed before the end-of-data test
PageReturnsSleepBeforeEnd(total, rows_value) ==
    /\ f_pc = "request"
    /\ LET total_now == IF total_records = PyNone
                        THEN DictGet(total, PyInt(0)) ELSE total_records
           rows == rows_value.rows
       IN /\ total_records' = total_now
          /\ served' = Append(served, rows)
          /\ IF rows = <<>>
             THEN /\ f_pc' = "returned"
                  /\ f_log' = Append(f_log, Request(offset, TRUE))
                  /\ UNCHANGED <<all_records, seen_ids, offset>>
             ELSE LET r == RowLoop(rows, 1, Len(rows),
                                   [seen |-> seen_ids, all |-> all_records])
                      limit == max_records_to_fetch(full_scan)
                  IN /\ all_records' = r.all
                     /\ seen_ids' = r.seen
                     /\ offset' = offset + RECORDS_PER_PAGE
                     /\ IF BudgetReached(limit, Len(r.all))
                        THEN /\ f_pc' = "returned"
                             /\ f_log' = Append(f_log, Request(offset, TRUE))
                        ELSE /\ f_log' = f_log \o <<Request(offset, TRUE), Delay>>
                             /\ f_pc' = IF EndOfData(offset + RECORDS_PER_PAGE, total_now)
                                        THEN "returned" ELSE "request"
    /\ UNCHANGED <<caller, full_scan>>
    /\ UNCHANGED <<vars_identify, baseline_file, vars_store, out_dir, vars_cleanup,
                   vars_monitor, earlier_runs, state_file, vars_run>>

\* one iteration whose fetch_page(offset) returns the body {total, rows};
\* total and rows are Missing when the body has no such key
PageReturns(total, rows_value) ==
    /\ f_pc = "request"
    /\ f_log' = Append(f_log, Request(offset, TRUE))
    /\ LET total_now == IF total_records = PyNone
                        THEN DictGet(total, PyInt(0)) ELSE total_records
           rows == rows_value.rows
       IN /\ total_records' = total_now
          /\ served' = Append(served, rows)
          /\ IF rows = <<>>
             THEN /\ f_pc' = "returned"
                  /\ UNCHANGED <<all_records, seen_ids, offset>>
             ELSE LET r == RowLoop(rows, 1, Len(rows),
                                   [seen |-> seen_ids, all |-> all_records])
                      limit == max_records_to_fetch(full_scan)
                  IN /\ all_records' = r.all
                     /\ seen_ids' = r.seen
                     /\ offset' = offset + RECORDS_PER_PAGE
                     /\ f_pc' = IF BudgetReached(limit, Len(r.all))
                                THEN "returned"
                                ELSE IF EndOfData(offset + RECORDS_PER_PAGE, total_now)
                                THEN "returned"
                                ELSE "sleep"
    /\ UNCHANGED <<caller, full_scan>>
    /\ UNCHANGED <<vars_identify, baseline_file, vars_store, out_dir, vars_cleanup,
                   vars_monitor, earlier_runs, state_file, vars_run>>

\* time.sleep(REQUEST_DELAY) at the end of an iteration
Sleep ==
    /\ f_pc = "sleep"
    /\ f_log' = Append(f_log, Delay)
    /\ f_pc' = "request"
    /\ UNCHANGED <<caller, full_scan, all_records, offset, total_records,
                   seen_ids, served>>
    /\ UNCHANGED <<vars_identify, baseline_file, vars_store, out_dir, vars_cleanup,
                   vars_monitor, earlier_runs, state_file, vars_run>>

-----------------------------------------------------------------------------
(* TopHatAPIMonitor: state file, snapshots, cleanup_old_files and run *)

AUTO_CLEANUP_KEEP == 2

\* the state file: absent, or holding the JSON object save_state wrote
NoState == [exists |-> FALSE, last_run |-> 0, records_fetched |-> 0,
            new_records_found |-> 0]
StateOf(t, fetched, found) ==
    [exists |-> TRUE, last_run |-> t, records_fetched |-> fetched,
     new_records_found |-> found]

\* start_time.strftime('%Y%m%d_%H%M%S') for the instants of the model's clock
Strftime(t) ==
    CASE t = 1 -> <<"20240101", "235958">>
      [] t = 2 -> <<"20240101", "235959">>
      [] t = 3 -> <<"20240102", "000000">>
      [] t = 4 -> <<"20240102", "000001">>

\* the file <kind>_records_<timestamp>.<ext> of the output directory
Snapshot(kind, t, ext) == File(<<kind, "records">> \o Strftime(t), ext)

\* int(s) of a string of decimal digits
RECURSIVE StrToInt(_, _)
StrToInt(str, acc) ==
    IF str = <<>> THEN acc
    ELSE StrToInt(Tail(str), 10 * acc + (Code(Head(str)) - 48))

\* the key of run's sort: int(x.get('Id', 0) or 0)
RunSortKey(r) ==
    LET v == DictGet(r.Id, PyInt(0))
    IN IF ~Truthy(v) THEN PyInt(0)
       ELSE IF v.t = "int" THEN v
       ELSE PyInt(StrToInt(v.s, 0))

\* the list of files of one glob of the monitor's cleanup, parsed and sorted
\* newest first
monitor_timestamped_files(listing) ==
    LET parsed == SelectSeq(listing, LAMBDA f : ParseFile(f).kind = "ok")
    IN Sorted(parsed, [i \in 1..Len(parsed) |-> ParseFile(parsed[i]).ts], TRUE)

\* the files one pattern of the monitor's cleanup calls unlink on
MonitorToDelete(listing, keep) ==
    Range(DeleteSuffix(monitor_timestamped_files(listing), keep))

\* the listings glob may yield for a pattern in a directory
Listings(dir, pattern) == Orders({f \in dir : GlobMatch(pattern, f)})

\* the monitor and the run before run() is called
MonitorIdle ==
    /\ email_config = "none"
    /\ keep_files = AUTO_CLEANUP_KEEP
    /\ state_file = NoState
    /\ r_pc = "idle"
    /\ send_email_notification = TRUE
    /\ start_time = 0
    /\ r_baseline_ids = {}
    /\ r_load = IoOk
    /\ r_all_records = <<>>
    /\ r_new_records = <<>>
    /\ r_before = [baseline |-> NoFile, state |-> NoState, dir |-> {}]
    /\ r_effects = <<>>
    /\ exit_code = -1
    /\ faults = 0
    /\ earlier_runs = <<>>

\* an entry of r_effects: a step of the run that touched a file, the mail
\* server or the directory, and whether it succeeded
Effect(what, ok) == [what |-> what, ok |-> ok]

\* the outcomes a step may have under the failure budget, and the failures
\* counted after it
Outcomes == IF faults < MaxFaults THEN {TRUE, FALSE} ELSE {TRUE}
Fault(ok) == IF ok THEN faults ELSE faults + 1
Failed(ok) == IF ok THEN 0 ELSE 1

\* run starting from an empty baseline whatever the baseline file holds
RunStartNoBaseline(t, notify) ==
    /\ r_pc = "idle"
    /\ f_pc = "idle"
    /\ start_time' = t
    /\ send_email_notification' = notify
    /\ r_baseline_ids' = {}
    /\ r_load' = IoOk
    /\ r_before' = [baseline |-> baseline_file, state |-> state_file, dir |-> out_dir]
    /\ r_effects' = <<>>
    /\ FetchEntry(TRUE, "run")
    /\ r_pc' = "fetching"
    /\ UNCHANGED <<r_all_records, r_new_records, exit_code, faults>>
    /\ UNCHANGED <<vars_identify, baseline_file, vars_store, out_dir, vars_cleanup,
                   vars_monitor, earlier_runs, state_file>>

\* run: start_time, load_baseline, load_state and the call
\* fetch_all_records(full_scan=True)
RunStart(t, notify) ==
    /\ r_pc = "idle"
    /\ f_pc = "idle"
    /\ start_time' = t
    /\ send_email_notification' = notify
    /\ \E io \in IoOutcomes(Len(baseline_file.rows)) :
          /\ io = IoOk \/ (baseline_file.exists /\ faults < MaxFaults)
          /\ r_baseline_ids' = load_baseline(baseline_file, RowsRead(baseline_file, io))
          /\ r_load' = io
          /\ faults' = Fault(io = IoOk)
    /\ r_before' = [baseline |-> baseline_file, state |-> state_file, dir |-> out_dir]
    /\ r_effects' = <<>>
    /\ FetchEntry(TRUE, "run")
    /\ r_pc' = "fetching"
    /\ UNCHANGED <<r_all_records, r_new_records, exit_code>>
    /\ UNCHANGED <<vars_identify, baseline_file, vars_store, out_dir, vars_cleanup,
                   vars_monitor, earlier_runs, state_file>>

\* run going on to the persistence steps also when nothing was fetched
RunFetchedNoGuard ==
    /\ r_pc = "fetching"
    /\ f_pc = "returned"
    /\ r_all_records' = all_records
    /\ r_new_records' = identify_new_records(all_records, r_baseline_ids)
    /\ r_pc' = "save_baseline"
    /\ UNCHANGED <<send_email_notification, start_time, r_baseline_ids, r_load, r_before,
                   r_effects, exit_code, faults>>
    /\ UNCHANGED <<vars_identify, vars_fetch, baseline_file, vars_store, out_dir,
                   vars_cleanup, vars_monitor, earlier_runs, state_file>>

\* run after the fetch returned: nothing fetched skips to the cleanup, else
\* the sort by Id descending and identify_new_records
RunFetched ==
    /\ r_pc = "fetching"
    /\ f_pc = "returned"
    /\ IF all_records = <<>>
       THEN /\ r_pc' = "cleanup"
            /\ UNCHANGED <<r_all_records, r_new_records>>
       ELSE LET sorted_records ==
                    Sorted(all_records,
                           [i \in 1..Len(all_records) |-> RunSortKey(all_records[i])],
                           TRUE)
            IN /\ r_all_records' = sorted_records
               /\ r_new_records' = identify_new_records(sorted_records, r_baseline_ids)
               /\ r_pc' = "save_fetched"
    /\ UNCHANGED <<send_email_notification, start_time, r_baseline_ids, r_load, r_before,
                   r_effects, exit_code, faults>>
    /\ UNCHANGED <<vars_identify, vars_fetch, baseline_file, vars_store, out_dir,
                   vars_cleanup, vars_monitor, earlier_runs, state_file>>

\* save_records_csv and save_records_json of one kind of snapshot: each file
\* is written unless its open or write raises
SaveSnapshots(kind, csv_ok, json_ok) ==
    /\ out_dir' = out_dir
                   \cup (IF csv_ok THEN {Snapshot(kind, start_time, "csv")} ELSE {})
                   \cup (IF json_ok THEN {Snapshot(kind, start_time, "json")} ELSE {})
    /\ r_effects' = r_effects \o <<Effect(<<kind, "csv">>, csv_ok),
                                    Effect(<<kind, "json">>, json_ok)>>

\* run: the two snapshots of the full fetch
RunSaveFetched ==
    /\ r_pc = "save_fetched"
    /\ \E csv_ok \in Outcomes, json_ok \in Outcomes :
          /\ faults + Failed(csv_ok) + Failed(json_ok) <= MaxFaults
          /\ SaveSnapshots("fetched", csv_ok, json_ok)
          /\ faults' = faults + Failed(csv_ok) + Failed(json_ok)
    /\ r_pc' = "save_new"
    /\ UNCHANGED <<send_email_notification, start_time, r_baseline_ids, r_load,
                   r_all_records, r_new_records, r_before, exit_code>>
    /\ UNCHANGED <<vars_identify, vars_fetch, baseline_file, vars_store,
                   vars_cleanup, vars_monitor, earlier_runs, state_file>>

\* run: the two snapshots of the new records, if there are any
RunSaveNew ==
    /\ r_pc = "save_new"
    /\ IF r_new_records # <<>>
       THEN \E csv_ok \in Outcomes, json_ok \in Outcomes :
               /\ faults + Failed(csv_ok) + Failed(json_ok) <= MaxFaults
               /\ SaveSnapshots("new", csv_ok, json_ok)
               /\ faults' = faults + Failed(csv_ok) + Failed(json_ok)
       ELSE UNCHANGED <<out_dir, r_effects, faults>>
    /\ r_pc' = "save_baseline"
    /\ UNCHANGED <<send_email_notification, start_time, r_baseline_ids, r_load,
                   r_all_records, r_new_records, r_before, exit_code>>
    /\ UNCHANGED <<vars_identify, vars_fetch, baseline_file, vars_store,
                   vars_cleanup, vars_monitor, earlier_runs, state_file>>

\* run saving only the new records to the baseline
RunSaveBaselineNewOnly ==
    /\ r_pc = "save_baseline"
    /\ \E io \in IoOutcomes(Len(r_new_records)) :
          /\ io = IoOk \/ faults < MaxFaults
          /\ baseline_file' = save_baseline(baseline_file, r_new_records, io)
          /\ r_effects' = Append(r_effects, Effect(<<"baseline">>, io = IoOk))
          /\ faults' = Fault(io = IoOk)
    /\ r_pc' = "save_state"
    /\ UNCHANGED <<send_email_notification, start_time, r_baseline_ids, r_load,
                   r_all_records, r_new_records, r_before, exit_code>>
    /\ UNCHANGED <<vars_identify, vars_fetch, vars_store, out_dir, vars_cleanup,
                   vars_monitor, earlier_runs, state_file>>

\* run: save_baseline(list(all_records))
RunSaveBaseline ==
    /\ r_pc = "save_baseline"
    /\ \E io \in IoOutcomes(Len(r_all_records)) :
          /\ io = IoOk \/ faults < MaxFaults
          /\ baseline_file' = save_baseline(baseline_file, r_all_records, io)
          /\ r_effects' = Append(r_effects, Effect(<<"baseline">>, io = IoOk))
          /\ faults' = Fault(io = IoOk)
    /\ r_pc' = "save_state"
    /\ UNCHANGED <<send_email_notification, start_time, r_baseline_ids, r_load,
                   r_all_records, r_new_records, r_before, exit_code>>
    /\ UNCHANGED <<vars_identify, vars_fetch, vars_store, out_dir, vars_cleanup,
                   vars_monitor, earlier_runs, state_file>>

\* run putting the previous baseline file back when save_state fails
RunSaveStateRollsBack ==
    /\ r_pc = "save_state"
    /\ \E ok \in Outcomes :
          /\ state_file' = IF ok THEN StateOf(start_time, Len(r_all_records),
                                               Len(r_new_records))
                            ELSE state_file
          /\ baseline_file' = IF ok THEN baseline_file ELSE r_before.baseline
          /\ r_effects' = Append(r_effects, Effect(<<"state">>, ok))
          /\ faults' = Fault(ok)
    /\ r_pc' = "email"
    /\ UNCHANGED <<send_email_notification, start_time, r_baseline_ids, r_load,
                   r_all_records, r_new_records, r_before, exit_code>>
    /\ UNCHANGED <<vars_identify, vars_fetch, vars_store, out_dir,
                   vars_cleanup, vars_monitor, earlier_runs>>

\* run: save_state(new_state)
RunSaveState ==
    /\ r_pc = "save_state"
    /\ \E ok \in Outcomes :
          /\ state_file' = IF ok THEN StateOf(start_time, Len(r_all_records),
                                               Len(r_new_records))
                            ELSE state_file
          /\ r_effects' = Append(r_effects, Effect(<<"state">>, ok))
          /\ faults' = Fault(ok)
    /\ r_pc' = "email"
    /\ UNCHANGED <<send_email_notification, start_time, r_baseline_ids, r_load,
                   r_all_records, r_new_records, r_before, exit_code>>
    /\ UNCHANGED <<vars_identify, vars_fetch, baseline_file, vars_store, out_dir,
                   vars_cleanup, vars_monitor, earlier_runs>>

\* run in which an exception of the SMTP session escapes send_email and run
RunEmailFatal ==
    /\ r_pc = "email"
    /\ IF r_new_records # <<>> /\ send_email_notification /\ email_config = "complete"
       THEN \E ok \in Outcomes :
               /\ r_effects' = Append(r_effects, Effect(<<"email">>, ok))
               /\ faults' = Fault(ok)
               /\ r_pc' = IF ok THEN "cleanup" ELSE "done"
               /\ exit_code' = IF ok THEN exit_code ELSE 1
       ELSE /\ UNCHANGED <<r_effects, faults, exit_code>>
            /\ r_pc' = "cleanup"
    /\ UNCHANGED <<send_email_notification, start_time, r_baseline_ids, r_load,
                   r_all_records, r_new_records, r_before>>
    /\ UNCHANGED <<vars_identify, vars_fetch, baseline_file, vars_store, out_dir,
                   vars_cleanup, vars_monitor, earlier_runs, state_file>>

\* run: send_email(new_records) if there are new records and notification is
\* on; send_email opens the SMTP session only under a complete email_config
RunEmail ==
    /\ r_pc = "email"
    /\ IF r_new_records # <<>> /\ send_email_notification /\ email_config = "complete"
       THEN \E ok \in Outcomes :
               /\ r_effects' = Append(r_effects, Effect(<<"email">>, ok))
               /\ faults' = Fault(ok)
       ELSE UNCHANGED <<r_effects, faults>>
    /\ r_pc' = "cleanup"
    /\ UNCHANGED <<send_email_notification, start_time, r_baseline_ids, r_load,
                   r_all_records, r_new_records, r_before, exit_code>>
    /\ UNCHANGED <<vars_identify, vars_fetch, baseline_file, vars_store, out_dir,
                   vars_cleanup, vars_monitor, earlier_runs, state_file>>

\* the monitor's cleanup going through the fetched_records patterns only
MonitorCleanupFetchedOnly(l1, l2, l3, l4, locked) ==
    IF keep_files <= 0 THEN {}
    ELSE (MonitorToDelete(l1, keep_files) \cup MonitorToDelete(l2, keep_files))
         \ locked

\* TopHatAPIMonitor.cleanup_old_files when the four globs yield the listings
\* l1..l4 and unlink raises on the files of `locked`: the files removed
MonitorCleanup(l1, l2, l3, l4, locked) ==
    IF keep_files <= 0 THEN {}
    ELSE (MonitorToDelete(l1, keep_files) \cup MonitorToDelete(l2, keep_files)
          \cup MonitorToDelete(l3, keep_files) \cup MonitorToDelete(l4, keep_files))
         \ locked

\* run: cleanup_old_files(), then the return to main, which returns 0
RunCleanup ==
    /\ r_pc = "cleanup"
    /\ \E l1 \in Listings(out_dir, Pattern(<<"fetched", "records">>, "csv")),
          l2 \in Listings(out_dir, Pattern(<<"fetched", "records">>, "json")),
          l3 \in Listings(out_dir, Pattern(<<"new", "records">>, "csv")),
          l4 \in Listings(out_dir, Pattern(<<"new", "records">>, "json")) :
       \E locked \in { l \in SUBSET MonitorCleanup(l1, l2, l3, l4, {}) :
                          faults + Cardinality(l) <= MaxFaults } :
          /\ out_dir' = out_dir \ MonitorCleanup(l1, l2, l3, l4, locked)
          /\ faults' = faults + Cardinality(locked)
          /\ r_effects' = Append(r_effects, Effect(<<"cleanup">>, locked = {}))
    /\ r_pc' = "done"
    /\ exit_code' = 0
    /\ UNCHANGED <<send_email_notification, start_time, r_baseline_ids, r_load,
                   r_all_records, r_new_records, r_before>>
    /\ UNCHANGED <<vars_identify, vars_fetch, baseline_file, vars_store,
                   vars_cleanup, vars_monitor, earlier_runs, state_file>>

\* what glob(pattern) yields on a directory whose entries come in the order
\* fs_order
FsListing(dir, pattern) ==
    SelectSeq(fs_order, LAMBDA f : f \in dir /\ GlobMatch(pattern, f))

\* a call of TopHatAPIMonitor.cleanup_old_files() on the directory mon_dir
MonitorCleanupCall ==
    /\ m_pc = "idle"
    /\ m_pc' = "returned"
    /\ mon_dir' = mon_dir \
          MonitorCleanup(FsListing(mon_dir, Pattern(<<"fetched", "records">>, "csv")),
                         FsListing(mon_dir, Pattern(<<"fetched", "records">>, "json")),
                         FsListing(mon_dir, Pattern(<<"new", "records">>, "csv")),
                         FsListing(mon_dir, Pattern(<<"new", "records">>, "json")),
                         fs_locked)
    /\ UNCHANGED <<keep_count, c_pc, c_pattern, c_dry_run, c_before, c_result,
                   c_warned, c_unlinked, c_prev, a_pc, fs_order, fs_locked>>
    /\ UNCHANGED <<vars_identify, vars_fetch, baseline_file, vars_store, out_dir,
                   vars_monitor, earlier_runs, state_file, vars_run>>

\* the patterns of FileCleanup.cleanup_all in the order of its loop
CleanupAllPatterns ==
    << Pattern(<<"fetched", "records">>, "csv"),
       Pattern(<<"fetched", "records">>, "json"),
       Pattern(<<"new", "records">>, "csv"),
       Pattern(<<"new", "records">>, "json") >>

\* one iteration of the loop of FileCleanup.cleanup_all(dry_run) on out_dir:
\* cleanup_old_files on the next pattern
CleanupAllStep(dry_run) ==
    /\ a_pc < Len(CleanupAllPatterns)
    /\ a_pc > 0 => dry_run = c_dry_run
    /\ a_pc' = a_pc + 1
    /\ CleanupOldFiles(CleanupAllPatterns[a_pc + 1], dry_run,
                       FsListing(out_dir, CleanupAllPatterns[a_pc + 1]), fs_locked)
    /\ UNCHANGED <<keep_count, c_pc, c_prev, mon_dir, m_pc, fs_order, fs_locked>>
    /\ UNCHANGED <<vars_identify, vars_fetch, baseline_file, vars_store,
                   vars_monitor, earlier_runs, state_file, vars_run>>

\* the string Ids of a fetch result
FetchedIds(records) == {PyStrOf(records[i].Id) : i \in 1..Len(records)}

\* main is invoked again after a run returned: a new monitor object, whose
\* fetch and run start afresh on the files the earlier runs left
NextInvocation ==
    /\ r_pc = "done"
    /\ Len(earlier_runs) + 1 < MaxRuns
    /\ earlier_runs' = Append(earlier_runs, FetchedIds(all_records))
    /\ f_pc' = "idle"
    /\ caller' = "none"
    /\ full_scan' = FALSE
    /\ all_records' = <<>>
    /\ offset' = 0
    /\ total_records' = PyNone
    /\ seen_ids' = {}
    /\ f_log' = <<>>
    /\ served' = <<>>
    /\ r_pc' = "idle"
    /\ send_email_notification' = TRUE
    /\ start_time' = 0
    /\ r_baseline_ids' = {}
    /\ r_load' = IoOk
    /\ r_all_records' = <<>>
    /\ r_new_records' = <<>>
    /\ r_before' = [baseline |-> NoFile, state |-> NoState, dir |-> {}]
    /\ r_effects' = <<>>
    /\ exit_code' = -1
    /\ UNCHANGED <<vars_identify, baseline_file, vars_store, out_dir, vars_cleanup,
                   vars_monitor, state_file, faults>>

-----------------------------------------------------------------------------
(* Specification of a call of identify_new_records *)

\* the records and baselines identify_new_records is called with
IdentifyRecords ==
    { Rec(PyInt(0), 0), Rec(PyInt(1), 0), Rec(PyInt(1), 1), Rec(PyInt(2), 0),
      Rec(PyStr(<<"1">>), 0), Rec(PyStr(<<>>), 0), Rec(PyNone, 0),
      Rec(Missing, 0) }
IdentifyBaselineIds == {<<"1">>, <<"2">>, <<"N", "o", "n", "e">>}

InitIdentify ==
    /\ id_pc = "call"
    /\ current_records \in SeqsUpTo(IdentifyRecords, MaxLen)
    /\ baseline_ids \in SUBSET IdentifyBaselineIds
    /\ new_records = <<>>
    /\ FetchIdle
    /\ baseline_file = NoFile
    /\ StoreIdle
    /\ out_dir = {}
    /\ CleanupIdle
    /\ MonitorIdle

IdentifyNewRecords ==
    /\ id_pc = "call"
    /\ new_records' = identify_new_records(current_records, baseline_ids)
    /\ id_pc' = "done"
    /\ UNCHANGED <<current_records, baseline_ids>>
    /\ UNCHANGED <<vars_fetch, baseline_file, vars_store, out_dir, vars_cleanup,
                   vars_monitor, earlier_runs, state_file, vars_run>>

NextIdentify == IdentifyNewRecords

SpecIdentify == InitIdentify /\ [][NextIdentify]_vars

-----------------------------------------------------------------------------
(* Specifications of a call of fetch_all_records *)

\* the rows a page is made of: two records share the Id 1, the string "1"
\* is another Id than the int 1, and one row has a null Id
FetchRecords ==
    { Rec(PyInt(1), 0), Rec(PyInt(1), 1), Rec(PyStr(<<"1">>), 0),
      Rec(PyNone, 0) }

\* the total a body reports: none, nothing, or one or two pages' worth,
\* exactly or with a partial last page
FetchTotals == { Missing, PyInt(0), PyInt(100), PyInt(150), PyInt(200) }

InitFetch ==
    /\ IdentifyIdle
    /\ FetchIdle
    /\ baseline_file = NoFile
    /\ StoreIdle
    /\ out_dir = {}
    /\ CleanupIdle
    /\ MonitorIdle

\* the server of small pages: any rows, any total, any failure
SmallPageReturns ==
    \/ \E total \in FetchTotals, rows \in SeqsUpTo(FetchRecords, MaxRows) :
           PageReturns(total, Rows(rows))
    \/ \E total \in FetchTotals : PageReturns(total, NoRows)

NextFetch ==
    \/ DirectFetchCall
    \/ PageFails
    \/ SmallPageReturns
    \/ Sleep

SpecFetch == InitFetch /\ [][NextFetch]_vars

\* the same calls when every page request returns (a body or a failure) and
\* every delay ends
SpecFetchFair ==
    SpecFetch /\ WF_vars(PageFails \/ SmallPageReturns) /\ WF_vars(Sleep)

\* a page of n rows of fresh Ids, as the server cuts them at an offset
BigPage(off, n) == [i \in 1..n |-> Rec(PyInt(1000 + off + i), 0)]

\* the large-page server: it reports 150, 1000 or 1100 records; a page is
\* empty or holds 100 fresh rows, and the last page may hold a single row
BudgetTotals == {PyInt(150), PyInt(1000), PyInt(1100)}
BudgetRows(off, total) ==
    { <<>>, BigPage(off, RECORDS_PER_PAGE) }
      \cup (IF off + RECORDS_PER_PAGE >= total.n THEN { <<Rec(PyInt(1), 0)>> } ELSE {})

BigPageReturns ==
    \/ /\ total_records = PyNone
       /\ \E total \in BudgetTotals : \E rows \in BudgetRows(offset, total) :
              PageReturns(total, Rows(rows))
    \/ /\ total_records # PyNone
       /\ \E rows \in BudgetRows(offset, total_records) :
              PageReturns(total_records, Rows(rows))

\* a fetch against the large-page server: called directly, or by a run
NextBudget ==
    \/ DirectFetchCall
    \/ RunStart(3, TRUE)
    \/ PageFails
    \/ BigPageReturns
    \/ Sleep

SpecBudget == InitFetch /\ [][NextBudget]_vars

-----------------------------------------------------------------------------
(* Specification of a run of the monitor *)

\* the rows of the server a run talks to
Rec4 == Rec(PyStr(<<"4">>), 0)
Rec3 == Rec(PyInt(3), 0)
Rec2 == Rec(PyStr(<<"2">>), 0)
RecEmpty == Rec(PyStr(<<>>), 0)
RunPages ==
    { <<>>, <<Rec4, Rec3, Rec2>>, <<Rec3, Rec2>>, <<Rec2, Rec4>>, <<Rec3>>,
      <<RecEmpty, Rec3>> }
RunTotals == { PyInt(0), PyInt(150) }

\* the baseline file a run may find: none, the Ids 1, 2, 3, or a row without
\* Id and the Id 4
RunBaselines ==
    { NoFile,
      CsvFile(<<CsvRow(Rec(PyInt(1), 0)), CsvRow(Rec(PyInt(2), 0)),
                CsvRow(Rec(PyInt(3), 0))>>),
      CsvFile(<<CsvRow(Rec(PyNone, 0)), CsvRow(Rec(PyInt(4), 0))>>) }

\* the output directory a run may find: empty, or with snapshots of two
\* earlier runs
RunDirs ==
    { {},
      { Snapshot("fetched", 1, "csv"), Snapshot("fetched", 2, "csv"),
        Snapshot("new", 1, "json") } }

InitRun ==
    /\ IdentifyIdle
    /\ FetchIdle
    /\ StoreIdle
    /\ CleanupIdle
    /\ baseline_file \in RunBaselines
    /\ out_dir \in RunDirs
    /\ email_config \in {"none", "incomplete", "complete"}
    /\ keep_files \in {0, AUTO_CLEANUP_KEEP}
    /\ state_file = StateOf(1, 3, 0)
    /\ r_pc = "idle"
    /\ send_email_notification = TRUE
    /\ start_time = 0
    /\ r_baseline_ids = {}
    /\ r_load = IoOk
    /\ r_all_records = <<>>
    /\ r_new_records = <<>>
    /\ r_before = [baseline |-> NoFile, state |-> NoState, dir |-> {}]
    /\ r_effects = <<>>
    /\ exit_code = -1
    /\ faults = 0
    /\ earlier_runs = <<>>

RunPageReturns ==
    \E total \in RunTotals, rows \in RunPages :
        PageReturns(total, Rows(rows))

NextRun ==
    \/ \E notify \in BOOLEAN : RunStart(3, notify)
    \/ PageFails
    \/ RunPageReturns
    \/ Sleep
    \/ RunFetched
    \/ RunSaveFetched
    \/ RunSaveNew
    \/ RunSaveBaseline
    \/ RunSaveState
    \/ RunEmail
    \/ RunCleanup

SpecRun == InitRun /\ [][NextRun]_vars

-----------------------------------------------------------------------------
(* Specification of runs of the monitor one after the other, in which no read
   and no write of a file fails *)

\* the pages of the server the runs talk to
RunsPages == { <<>>, <<Rec4, Rec3, Rec2>>, <<RecEmpty, Rec3>> }

InitRuns ==
    /\ IdentifyIdle
    /\ FetchIdle
    /\ StoreIdle
    /\ CleanupIdle
    /\ baseline_file \in RunBaselines
    /\ out_dir = {}
    /\ email_config = "none"
    /\ keep_files = AUTO_CLEANUP_KEEP
    /\ state_file = NoState
    /\ r_pc = "idle"
    /\ send_email_notification = TRUE
    /\ start_time = 0
    /\ r_baseline_ids = {}
    /\ r_load = IoOk
    /\ r_all_records = <<>>
    /\ r_new_records = <<>>
    /\ r_before = [baseline |-> NoFile, state |-> NoState, dir |-> {}]
    /\ r_effects = <<>>
    /\ exit_code = -1
    /\ faults = MaxFaults
    /\ earlier_runs = <<>>

RunsPageReturns ==
    \E rows \in RunsPages : PageReturns(PyInt(150), Rows(rows))

NextRuns ==
    \/ RunStart(Len(earlier_runs) + 1, TRUE)
    \/ PageFails
    \/ RunsPageReturns
    \/ Sleep
    \/ RunFetched
    \/ RunSaveFetched
    \/ RunSaveNew
    \/ RunSaveBaseline
    \/ RunSaveState
    \/ RunEmail
    \/ RunCleanup
    \/ NextInvocation

SpecRuns == InitRuns /\ [][NextRuns]_vars

-----------------------------------------------------------------------------
(* Specification of direct calls of the baseline store *)

\* the records save_baseline is called with: "10" sorts before "2", the
\* int 2 and the string "2" write the same Id, and three records write ''
StoreRecords ==
    { Rec(PyInt(2), 0), Rec(PyInt(10), 0), Rec(PyStr(<<"2">>), 1),
      Rec(PyStr(<<>>), 0), Rec(PyNone, 0), Rec(Missing, 0) }

\* the baseline files a first call may find
StoreFiles ==
    { NoFile, CsvFile(<<>>), CsvFile(<<CsvRow(Rec(PyInt(7), 0))>>),
      CsvFile(<<CsvRow(Rec(PyNone, 0)), CsvRow(Rec(PyInt(2), 0))>>) }

InitStore ==
    /\ IdentifyIdle
    /\ FetchIdle
    /\ baseline_file \in StoreFiles
    /\ StoreIdle
    /\ out_dir = {}
    /\ CleanupIdle
    /\ MonitorIdle

NextStore ==
    \/ \E records \in SeqsUpTo(StoreRecords, MaxSaved) : SaveBaselineCall(records)
    \/ LoadBaselineCall

SpecStore == InitStore /\ [][NextStore]_vars

-----------------------------------------------------------------------------
(* Specification of a call of FileCleanup.cleanup_old_files *)

FetchedCsv == Pattern(<<"fetched", "records">>, "csv")
FetchedJson == Pattern(<<"fetched", "records">>, "json")
NewCsv == Pattern(<<"new", "records">>, "csv")
NewJson == Pattern(<<"new", "records">>, "json")
AnyCsv == Pattern(<<>>, "csv")

\* the files the directory may hold: four fetched_records CSV snapshots of
\* distinct timestamps, one more with the timestamp of the oldest, two whose
\* date and time do not parse, one of another category and one whose stem
\* has two segments
CleanupFiles ==
    { File(<<"fetched", "records", "20240102", "235959">>, "csv"),
      File(<<"fetched", "records", "20240102", "000000">>, "csv"),
      File(<<"fetched", "records", "20240101", "235959">>, "csv"),
      File(<<"fetched", "records", "20240101", "000000">>, "csv"),
      File(<<"fetched", "records", "old", "20240101", "000000">>, "csv"),
      File(<<"fetched", "records", "final">>, "csv"),
      File(<<"fetched", "records", "20241301", "000000">>, "csv"),
      File(<<"new", "records", "20240101", "000000">>, "json"),
      File(<<"report", "final">>, "csv") }

CleanupPatterns == {FetchedCsv, NewJson, AnyCsv}

InitCleanup ==
    /\ IdentifyIdle
    /\ FetchIdle
    /\ baseline_file = NoFile
    /\ StoreIdle
    /\ out_dir \in {d \in SUBSET CleanupFiles : Cardinality(d) <= MaxFiles}
    /\ keep_count \in 0..MaxKeep
    /\ c_pc = "idle"
    /\ c_pattern = Pattern(<<>>, "")
    /\ c_dry_run = FALSE
    /\ c_before = {}
    /\ c_result = <<0, 0>>
    /\ c_warned = {}
    /\ c_unlinked = <<>>
    /\ c_prev = <<>>
    /\ mon_dir = {}
    /\ m_pc = "idle"
    /\ a_pc = 0
    /\ fs_order = <<>>
    /\ fs_locked = {}
    /\ MonitorIdle

NextCleanup ==
    \E pattern \in CleanupPatterns, dry_run \in BOOLEAN :
        CleanupOldFilesCall(pattern, dry_run)

SpecCleanup == InitCleanup /\ [][NextCleanup]_vars

-----------------------------------------------------------------------------
(* Specification of a dry run followed by a second pass with the same pattern *)

NextRepass ==
    \/ \E pattern \in CleanupPatterns : CleanupOldFilesCall(pattern, TRUE)
    \/ \E dry_run \in BOOLEAN : CleanupOldFilesAgain(c_pattern, dry_run)

SpecRepass == InitCleanup /\ [][NextRepass]_vars

-----------------------------------------------------------------------------
(* Claims *)

\* the string-coerced Id of a record, '' when the record has no Id
StrId(r) == IF r.Id.t = "missing" THEN <<>> ELSE PyStrOf(r.Id)

\* C1: identify_new_records(R, baseline_ids) returns exactly the records of R
\* whose string-coerced Id is non-empty and not in baseline_ids, in R's order.
C1_IdentifyNewExact ==
    id_pc = "done" =>
        new_records = SelectSeq(current_records,
                          LAMBDA r : StrId(r) # <<>> /\ StrId(r) \notin baseline_ids)

\* a call that keeps a record, drops a record of the baseline and drops a
\* record whose Id is empty
C1_Witness ==
    /\ id_pc = "done"
    /\ Len(new_records) >= 1
    /\ Len(new_records) + 2 <= Len(current_records)
    /\ \E i \in 1..Len(current_records) : StrId(current_records[i]) \in baseline_ids
    /\ \E i \in 1..Len(current_records) : StrId(current_records[i]) = <<>>

\* the Ids in the rows of a baseline file
FileIds(file) == {file.rows[i].Id : i \in 1..Len(file.rows)}

\* the string-coerced Ids of a record list
IdsOf(records) == {PyStrOf(records[i].Id) : i \in 1..Len(records)}

\* a run is over whose fetch returned a non-empty record list
RunOverNonEmpty == r_pc = "done" /\ all_records # <<>>

\* the run's write of the baseline file succeeded
BaselineWritten ==
    \E i \in 1..Len(r_effects) : r_effects[i] = Effect(<<"baseline">>, TRUE)

PersistenceEffects ==
    {i \in 1..Len(r_effects) : r_effects[i].what # <<"cleanup">>}

\* the fetch of a run returned zero records and the run went past its
\* persistence steps
RunPastEmptyFetch == r_pc \in {"cleanup", "done"} /\ all_records = <<>>

\* C3: in a run whose fetch returns zero records the baseline file and the
\* state file are left unchanged, no fetched_records or new_records snapshot
\* is written, and no baseline write, state write or email send is attempted.
C3_EmptyFetchSkipsAll ==
    RunPastEmptyFetch =>
        /\ baseline_file = r_before.baseline
        /\ state_file = r_before.state
        /\ out_dir \subseteq r_before.dir
        /\ PersistenceEffects = {}

\* a run over a baseline of three Ids, with a complete mail configuration
\* and notification on, ended after its first page request failed
C3_Witness ==
    /\ r_pc = "done"
    /\ all_records = <<>>
    /\ f_log = <<Request(0, FALSE)>>
    /\ Len(r_before.baseline.rows) = 3
    /\ r_before.state.exists
    /\ email_config = "complete"
    /\ send_email_notification


\* C4: save_baseline([]) is a no-op: the baseline file keeps its previous
\* contents, and no file is created when none existed.
C4_SaveEmptyNoOp ==
    (b_op = "save" /\ b_arg = <<>>) => baseline_file = b_before

\* save_baseline([]) was called on an existing baseline file with rows
C4_Witness ==
    /\ b_op = "save"
    /\ b_arg = <<>>
    /\ b_before.exists
    /\ b_before.rows # <<>>

\* the Id of a record is non-empty: present, not None and not ''
NonEmptyId(r) == r.Id.t \in {"int", "str"} /\ PyStrOf(r.Id) # <<>>

\* load_baseline() was called right after save_baseline(R), R non-empty with
\* every Id non-empty
RoundTrip ==
    /\ b_op = "load"
    /\ b_prev_op = "save"
    /\ b_arg # <<>>
    /\ \A i \in 1..Len(b_arg) : NonEmptyId(b_arg[i])

RECURSIVE Flatten(_)
Flatten(pages) == IF pages = <<>> THEN <<>> ELSE Head(pages) \o Flatten(Tail(pages))

\* a row carries an identifier: an Id that is not null
HasId(r) == r.Id.t \notin {"none", "missing"}

\* the position in rows of the first row carrying the identifier of rows[i]
FirstWith(rows, i) ==
    CHOOSE j \in 1..i :
        /\ rows[j].Id = rows[i].Id
        /\ \A k \in 1..(j - 1) : rows[k].Id # rows[i].Id

\* the list holds each identifier of the rows exactly once, with the first
\* row that carried it, and holds nothing else
FirstSeenOnce(list, rows) ==
    /\ \A i \in 1..Len(rows) :
           HasId(rows[i]) =>
               /\ Cardinality({n \in 1..Len(list) : list[n].Id = rows[i].Id}) = 1
               /\ \E n \in 1..Len(list) : list[n] = rows[FirstWith(rows, i)]
    /\ \A n \in 1..Len(list) :
           \E i \in 1..Len(rows) : HasId(rows[i]) /\ list[n] = rows[i]

\* C6: whatever pages the server returns during one fetch_all_records call,
\* the returned list holds each identifier exactly once, and the record kept
\* for an identifier is the first one encountered in page order.
C6_DedupFirstSeen ==
    f_pc = "returned" => FirstSeenOnce(all_records, Flatten(served))

\* a call returned after two pages that both carried the Id 1, with different
\* records
C6_Witness ==
    /\ f_pc = "returned"
    /\ Len(served) = 2
    /\ \E i \in 1..Len(served[1]), j \in 1..Len(served[2]) :
           /\ HasId(served[1][i])
           /\ served[1][i].Id = served[2][j].Id
           /\ served[1][i] # served[2][j]

\* the positions of the page requests in a log
Requests(log) == {i \in 1..Len(log) : log[i].e = "request"}

\* an incremental call has accumulated its budget of records
BudgetSpent == caller # "none" /\ ~full_scan /\ Len(all_records) >= FETCH_LIMIT

\* C7: in incremental mode fetching halts once at least 1000 records are
\* accumulated: the call has returned and no page request is issued after the
\* page that brought the count to 1000 or more.
C7_BudgetHalts ==
    [][BudgetSpent => (f_pc = "returned" /\ Requests(f_log') = Requests(f_log))]_vars

\* an incremental call returned after ten pages of 100 fresh rows, with 100
\* more records on the server
C7_Witness ==
    /\ BudgetSpent
    /\ f_pc = "returned"
    /\ Len(all_records) = FETCH_LIMIT
    /\ Cardinality(Requests(f_log)) = 10
    /\ offset < total_records.n

\* the reasons for which a full scan stops: the last page request failed,
\* the last page had no rows, or the next offset is past the reported total
LastRequestFailed == f_log # <<>> /\ ~f_log[Len(f_log)].ok
LastPageEmpty == served # <<>> /\ served[Len(served)] = <<>>
PastTotal == total_records # PyNone /\ EndOfData(offset, total_records)

C9_FailureTruncates ==
    \A i \in 1..Len(f_log) :
        (f_log[i].e = "request" /\ ~f_log[i].ok) =>
            /\ i = Len(f_log)
            /\ f_pc = "returned"
            /\ FirstSeenOnce(all_records, Flatten(served))
            /\ Len(served) = Cardinality({k \in 1..(i - 1) : f_log[k].e = "request"})

\* the second page request of a call failed after a page that left two records
C9_Witness ==
    /\ Len(f_log) = 3
    /\ ~f_log[3].ok
    /\ f_log[3].offset = RECORDS_PER_PAGE
    /\ Len(all_records) = 2

\* the files of the directory before the call that match its pattern
Matched == {f \in c_before : GlobMatch(c_pattern, f)}

\* file f is older than file g
Older(f, g) == KeyLess(ParseFile(f).ts, ParseFile(g).ts)

\* a live call was made over files whose timestamps all parse and differ
LiveOverDistinct ==
    /\ c_pc = "done"
    /\ ~c_dry_run
    /\ \A f \in Matched : ParseFile(f).kind = "ok"
    /\ \A f, g \in Matched : f # g => ParseFile(f).ts # ParseFile(g).ts

\* min(n, k) for the n matched files and k = keep_count
KeptCount == IF Cardinality(Matched) < keep_count
             THEN Cardinality(Matched) ELSE keep_count

\* the matched files that have fewer than keep_count newer matched files
Newest == {f \in Matched : Cardinality({g \in Matched : Older(f, g)}) < keep_count}

Excluded == {f \in Matched : ParseFile(f).kind # "ok"}
Considered == Matched \ Excluded

\* min(m, k) for the m files taken and k = keep_count
KeptOfConsidered == IF Cardinality(Considered) < keep_count
                    THEN Cardinality(Considered) ELSE keep_count

\* a dry run, then a live call with the same pattern on the same directory in
\* which no unlink raised
DryThenLive ==
    /\ c_pc = "again"
    /\ c_prev[1].dry_run
    /\ c_prev[1].pattern = c_pattern
    /\ c_prev[1].before = c_before
    /\ ~c_dry_run
    /\ Range(c_unlinked) \cap out_dir = {}

\* C11: a dry-run cleanup_old_files leaves the files of the directory
\* unchanged and returns the pair that a live call on the same directory with
\* the same pattern and keep_count returns when no deletion fails.
C11_DryRunSameCounts ==
    /\ (c_pc \in {"done", "again"} /\ c_dry_run) => out_dir = c_before
    /\ DryThenLive => c_result = c_prev[1].result

\* a dry run reported (2, 2) and the live call that followed removed two files
C11_Witness ==
    /\ DryThenLive
    /\ c_prev[1].result = <<2, 2>>
    /\ Cardinality(c_before \ out_dir) = 2

\* C12: a matched file whose stem has fewer than 3 segments, or whose last two
\* segments do not parse, is never deleted and is in neither count, for every
\* keep_count, live or dry run.
C12_ExcludedUntouched ==
    c_pc = "done" =>
        /\ Excluded \subseteq out_dir
        /\ c_result[1] = KeptOfConsidered
        /\ c_result[2] <= Cardinality(Considered) - KeptOfConsidered
        /\ c_dry_run => c_result[2] = Cardinality(Considered) - KeptOfConsidered

\* a live *.csv pass with keep_count = 0 over report_final.csv, a file whose
\* date does not parse and a file it removed
C12_Witness ==
    /\ c_pc = "done"
    /\ ~c_dry_run
    /\ keep_count = 0
    /\ File(<<"report", "final">>, "csv") \in Excluded
    /\ File(<<"fetched", "records", "20241301", "000000">>, "csv") \in Excluded
    /\ c_result = <<0, 1>>
    /\ Cardinality(c_before \ out_dir) = 1

\* C13: in a live pass a failed deletion does not end the pass: unlink is
\* called on every file of the delete suffix, and the deleted count is the
\* number of files actually removed.
C13_DeleteFailureContinues ==
    (c_pc = "done" /\ ~c_dry_run) =>
        /\ Len(c_unlinked) = Cardinality(Considered) - KeptOfConsidered
        /\ Cardinality(Range(c_unlinked)) = Len(c_unlinked)
        /\ Range(c_unlinked) \subseteq Considered
        /\ c_before \ out_dir \subseteq Range(c_unlinked)
        /\ c_result[2] = Cardinality(c_before \ out_dir)

\* the first unlink of a pass failed, the second removed its file, and 1 is
\* the deleted count
C13_Witness ==
    /\ c_pc = "done"
    /\ ~c_dry_run
    /\ Len(c_unlinked) = 2
    /\ c_unlinked[1] \in out_dir
    /\ c_unlinked[2] \notin out_dir
    /\ c_result[2] = 1

\* the entries of r_effects for a step of the run
EffectsOf(what) == {i \in 1..Len(r_effects) : r_effects[i].what = what}

\* the run is past its email step
PastEmail == r_pc \in {"cleanup", "done"} /\ all_records # <<>>

\* email is enabled: notification is on and the configuration is complete
EmailEnabled == send_email_notification /\ email_config = "complete"

\* the SMTP session of the run failed
EmailFailed == \E i \in EffectsOf(<<"email">>) : ~r_effects[i].ok

\* C14: in a run an email send is attempted if and only if there are new
\* records and email is enabled; a failed send does not stop the run: the
\* retention pass executes afterwards and the exit code is 0.
C14_EmailNonFatal ==
    /\ PastEmail => (EffectsOf(<<"email">>) # {} <=> (r_new_records # <<>> /\ EmailEnabled))
    /\ EffectsOf(<<"email">>) # {} => PastEmail
    /\ EmailFailed =>
           /\ r_pc \in {"cleanup", "done"}
           /\ r_pc = "done" =>
                  /\ exit_code = 0
                  /\ EffectsOf(<<"cleanup">>) # {}
                  /\ \A i \in EffectsOf(<<"email">>), j \in EffectsOf(<<"cleanup">>) : i < j

\* a run with new records whose send failed, ended with exit code 0 after a
\* retention pass that removed a file
C14_Witness ==
    /\ r_pc = "done"
    /\ EmailFailed
    /\ exit_code = 0
    /\ r_new_records # <<>>
    /\ out_dir # r_before.dir
    /\ r_before.dir \ out_dir # {}

\* the run has called load_baseline, and the baseline file it found could
\* not be read: open() or the read raised
RunLoaded == r_pc # "idle"
Unreadable == r_before.baseline.exists /\ r_load # IoOk

\* the run has called identify_new_records
Identified ==
    r_pc \in {"save_fetched", "save_new", "save_baseline", "save_state", "email",
              "cleanup", "done"} /\ all_records # <<>>

\* the Ids of the rows of the baseline file read before the read raised
IdsRead ==
    {r_before.baseline.rows[i].Id : i \in 1..RowsRead(r_before.baseline, r_load)}

Steps == [i \in 1..Len(r_effects) |-> r_effects[i].what]

\* the steps of a run with a non-empty fetch, in the order of the claim
ExpectedSteps ==
    <<<<"fetched", "csv">>, <<"fetched", "json">>>>
    \o (IF r_new_records # <<>> THEN <<<<"new", "csv">>, <<"new", "json">>>> ELSE <<>>)
    \o <<<<"baseline">>, <<"state">>>>
    \o (IF r_new_records # <<>> /\ EmailEnabled THEN <<<<"email">>>> ELSE <<>>)
    \o <<<<"cleanup">>>>

\* a step of the run succeeded
Succeeded(what) == \E i \in EffectsOf(what) : r_effects[i].ok

\* what the steps that succeeded left is still in place
NothingRolledBack ==
    /\ \A kind \in {"fetched", "new"}, ext \in {"csv", "json"} :
           Succeeded(<<kind, ext>>) => Snapshot(kind, start_time, ext) \in out_dir
    /\ Succeeded(<<"baseline">>) => FileIds(baseline_file) = IdsOf(r_all_records)
    /\ Succeeded(<<"state">>) =>
           state_file = StateOf(start_time, Len(r_all_records), Len(r_new_records))

\* the steps so far are the first steps of the fixed order, all of them once
\* the run is over
StepsInOrder ==
    /\ Len(Steps) <= Len(ExpectedSteps)
    /\ Steps = SubSeq(ExpectedSteps, 1, Len(Steps))
    /\ r_pc = "done" => Steps = ExpectedSteps

OffsetBound == IF total_records.n > RECORDS_PER_PAGE
               THEN total_records.n ELSE RECORDS_PER_PAGE

\* C17: every call of fetch_all_records terminates, in both modes and for
\* every server behaviour, provided each page request returns; once the first
\* page has reported total T, no page is requested at an offset >= max(T, 100).
C17_FetchTerminates ==
    /\ [](total_records # PyNone =>
             \A i \in Requests(f_log) : f_log[i].offset < OffsetBound)
    /\ (f_pc = "request") ~> (f_pc = "returned")

\* a full scan ended at the reported total of 200 after two pages with rows
C17_Witness ==
    /\ f_pc = "returned"
    /\ full_scan
    /\ total_records = PyInt(200)
    /\ offset = 200
    /\ Len(served) = 2
    /\ served[2] # <<>>

\* page requests and delays alternate in the log, from a page request on
Alternates(log) == \A i \in 1..Len(log) : (log[i].e = "request") <=> (i % 2 = 1)

\* C18: within one fetch_all_records call a delay occurs exactly between
\* consecutive page requests: the log alternates request, delay, request, a
\* delay is followed by the next request, and the call returns on a page
\* request, never on a delay, however it ended.
C18_DelayBetweenRequests ==
    /\ Alternates(f_log)
    /\ f_pc = "returned" => (f_log # <<>> /\ f_log[Len(f_log)].e = "request")
    /\ f_pc = "sleep" => (f_log # <<>> /\ f_log[Len(f_log)].e = "request")
    /\ f_pc = "request" => (f_log = <<>> \/ f_log[Len(f_log)].e = "sleep")

\* a call made two page requests with one delay between them and ended at
\* the end of the data
C18_Witness ==
    /\ f_pc = "returned"
    /\ Len(f_log) = 3
    /\ f_log[2] = Delay
    /\ f_log[3].ok
    /\ served[2] # <<>>

\* C19: for every file that matches the glob pattern and is excluded from
\* consideration, whether its stem has fewer than 3 segments or its last two
\* segments fail to parse, a warning is logged during that cleanup pass.
C19_ExcludedWarned ==
    c_pc = "done" => Excluded \subseteq c_warned

-----------------------------------------------------------------------------
(* Specification of the monitor's cleanup and of FileCleanup.cleanup_all on
   two directories of the same content *)

\* the files the two directories may hold: two fetched_records CSV snapshots
\* of one timestamp, one whose date does not parse, and two new_records JSON
\* snapshots
RetentionFiles ==
    { File(<<"fetched", "records", "20240101", "000000">>, "csv"),
      File(<<"fetched", "records", "old", "20240101", "000000">>, "csv"),
      File(<<"fetched", "records", "20241301", "000000">>, "csv"),
      File(<<"new", "records", "20240101", "000000">>, "json"),
      File(<<"new", "records", "20240102", "000000">>, "json") }

InitRetention ==
    /\ IdentifyIdle
    /\ FetchIdle
    /\ baseline_file = NoFile
    /\ StoreIdle
    /\ out_dir \in {d \in SUBSET RetentionFiles : Cardinality(d) <= MaxFiles}
    /\ mon_dir = out_dir
    /\ fs_order \in Orders(out_dir)
    /\ fs_locked \in {l \in SUBSET out_dir : Cardinality(l) <= MaxFaults}
    /\ keep_count \in 0..MaxKeep
    /\ keep_files = keep_count
    /\ m_pc = "idle"
    /\ a_pc = 0
    /\ c_pc = "idle"
    /\ c_pattern = Pattern(<<>>, "")
    /\ c_dry_run = FALSE
    /\ c_before = {}
    /\ c_result = <<0, 0>>
    /\ c_warned = {}
    /\ c_unlinked = <<>>
    /\ c_prev = <<>>
    /\ email_config = "none"
    /\ state_file = NoState
    /\ r_pc = "idle"
    /\ send_email_notification = TRUE
    /\ start_time = 0
    /\ r_baseline_ids = {}
    /\ r_load = IoOk
    /\ r_all_records = <<>>
    /\ r_new_records = <<>>
    /\ r_before = [baseline |-> NoFile, state |-> NoState, dir |-> {}]
    /\ r_effects = <<>>
    /\ exit_code = -1
    /\ faults = 0
    /\ earlier_runs = <<>>

NextRetention ==
    \/ MonitorCleanupCall
    \/ \E dry_run \in BOOLEAN : CleanupAllStep(dry_run)

SpecRetention == InitRetention /\ [][NextRetention]_vars

-----------------------------------------------------------------------------
(* C20 *)

\* the indices of the earlier runs that fetched at least one record
NonEmptyRuns == {i \in 1..Len(earlier_runs) : earlier_runs[i] # {}}

\* the Ids fetched by the most recent earlier run that fetched a record
LastFetchedIds ==
    earlier_runs[CHOOSE i \in NonEmptyRuns : \A j \in NonEmptyRuns : j <= i]

\* C20: over runs whose baseline reads and writes succeed, every record a run
\* reports as new has an Id that the most recent earlier run with a non-empty
\* fetch did not fetch; runs that fetched nothing in between do not count,
\* and a run fetching the Ids of that earlier run again reports no record
C20_NewOnlyIfAbsentBefore ==
    (Identified /\ NonEmptyRuns # {}) =>
        /\ \A i \in 1..Len(r_new_records) :
               PyStrOf(r_new_records[i].Id) \notin LastFetchedIds
        /\ (FetchedIds(r_all_records) = LastFetchedIds => r_new_records = <<>>)

\* a third run fetches the records of the first again, the second having
\* fetched nothing, and reports none of them
C20_Witness ==
    /\ Len(earlier_runs) = 2
    /\ earlier_runs[1] = {<<"2">>, <<"3">>, <<"4">>}
    /\ earlier_runs[2] = {}
    /\ r_pc = "done"
    /\ FetchedIds(r_all_records) = earlier_runs[1]
    /\ r_new_records = <<>>
    /\ r_before.baseline.exists

-----------------------------------------------------------------------------
(* C21 *)

\* both passes are over: the monitor's cleanup returned and a live
\* cleanup_all went through its four patterns
BothPassesOver ==
    m_pc = "returned" /\ a_pc = Len(CleanupAllPatterns) /\ ~c_dry_run

\* the files each pass deleted from the directory it started on
MonitorDeleted == Range(fs_order) \ mon_dir
ToolDeleted == Range(fs_order) \ out_dir

\* C21: for every directory content and every keep count k >= 1, the
\* monitor's cleanup_old_files with keep_files = k deletes exactly the files a
\* live FileCleanup(keep_count = k).cleanup_all() deletes on that directory,
\* the directory yielding its entries in the same order and unlink failing on
\* the same files.
C21_SameRetention ==
    (BothPassesOver /\ keep_count >= 1 /\ keep_files = keep_count) =>
        MonitorDeleted = ToolDeleted

\* both passes kept one file per category: of two fetched_records snapshots
\* of one timestamp each deleted the one the directory yields last, neither
\* touched the file that does not parse, and the older new_records snapshot
\* stayed because its unlink raised
C21_Witness ==
    /\ BothPassesOver
    /\ keep_count = 1
    /\ Len(fs_order) = 4
    /\ File(<<"fetched", "records", "20241301", "000000">>, "csv") \in out_dir
    /\ fs_locked = {File(<<"new", "records", "20240101", "000000">>, "json")}
    /\ fs_locked \subseteq out_dir
    /\ MonitorDeleted = {File(<<"fetched", "records", "old", "20240101", "000000">>, "csv")}
    /\ ToolDeleted = MonitorDeleted

====
